---- MODULE Spec2Model ----
(***************************************************************************)
(* Model of the chat route handler POST (src/app/api/chat/route.ts).       *)
(* One behaviour is one invocation of POST: the credential check, the      *)
(* parsing of the multipart form, the construction of the provider         *)
(* request, the outbound fetch, and the normalisation of the provider's    *)
(* answer into the JSON response handed back to the client.                *)
(***************************************************************************)
EXTENDS Integers, Sequences, FiniteSets

\* ---------------------------------------------------------------- bounds
MaxMsgs == 2
MaxFileLen == 3

\* ------------------------------------------------------- JavaScript values
Undefined == "<undefined>"
JNull == "<null>"

\* A value is falsy for `!v` and `v || d` when it is undefined, null or "".
Falsy(v) == v \in {Undefined, JNull, ""}

Or(v, d) == IF Falsy(v) THEN d ELSE v

\* ------------------------------------------------------------ model table
SUPPORTED_MODELS ==
  [id \in {"gemini-1.5-flash", "gemini-2.0-flash", "gemini-1.5-flash-latest",
           "gemini-2.5-pro-preview-05-06"} |->
     CASE id = "gemini-1.5-flash" ->
            [name |-> "Gemini 1.5 Flash",
             capabilities |-> {"text", "image-analysis"},
             endpoint |-> "generateContent", version |-> "v1beta"]
       [] id = "gemini-2.0-flash" ->
            [name |-> "Gemini 2.0 Flash",
             capabilities |-> {"text", "image-analysis", "video-analysis"},
             endpoint |-> "generateContent", version |-> "v1beta"]
       [] id = "gemini-1.5-flash-latest" ->
            [name |-> "Gemini 1.5 Pro",
             capabilities |-> {"text", "image-analysis", "audio-analysis"},
             endpoint |-> "generateContent", version |-> "v1beta"]
       [] id = "gemini-2.5-pro-preview-05-06" ->
            [name |-> "Gemini 2.5 Pro",
             capabilities |-> {"text", "image-generation", "video-analysis"},
             endpoint |-> "generateContent", version |-> "v1beta"]]

\* Tables holding one descriptor of any shape the handler's branches
\* distinguish: either endpoint, any combination of the two image
\* capabilities.  Used to exercise the branches no entry of the shipped
\* table selects.
DescriptorTables ==
  { [id \in {"custom-model"} |->
       [name |-> "Custom", capabilities |-> {"text"} \cup caps,
        endpoint |-> ep, version |-> "v1"]] :
    caps \in SUBSET {"image-analysis", "image-generation"},
    ep \in {"generateContent", "generateImage"} }

\* Property names every object literal inherits from Object.prototype; the
\* `in` operator of line 52 finds them as well as the table's own keys.
ObjectPrototypeKeys == {"toString", "constructor"}

\* An inherited member is a function: it has no endpoint, version or
\* capabilities property.
InheritedMember ==
  [name |-> Undefined, capabilities |-> {}, endpoint |-> Undefined,
   version |-> Undefined]

\* `model in SUPPORTED_MODELS`
InTable(table, model) ==
  model \in (DOMAIN table) \cup ObjectPrototypeKeys

\* `SUPPORTED_MODELS[model]`
ModelInfo(table, model) ==
  IF model \in DOMAIN table THEN table[model] ELSE InheritedMember

\* ---------------------------------------------------------------- base64
Pad == 64

\* Variant: an encoder that emits only whole 3-byte groups and drops the
\* padded tail.
RECURSIVE Base64NoPadding(_)
Base64NoPadding(bytes) ==
  IF Len(bytes) < 3 THEN <<>>
  ELSE
    LET n == bytes[1] * 65536 + bytes[2] * 256 + bytes[3]
    IN  <<n \div 262144, (n \div 4096) % 64, (n \div 64) % 64, n % 64>>
        \o Base64NoPadding(SubSeq(bytes, 4, Len(bytes)))

RECURSIVE Base64(_)
Base64(bytes) ==
  IF Len(bytes) = 0 THEN <<>>
  ELSE IF Len(bytes) = 1 THEN
    LET n == bytes[1] * 65536
    IN  <<n \div 262144, (n \div 4096) % 64, Pad, Pad>>
  ELSE IF Len(bytes) = 2 THEN
    LET n == bytes[1] * 65536 + bytes[2] * 256
    IN  <<n \div 262144, (n \div 4096) % 64, (n \div 64) % 64, Pad>>
  ELSE
    LET n == bytes[1] * 65536 + bytes[2] * 256 + bytes[3]
    IN  <<n \div 262144, (n \div 4096) % 64, (n \div 64) % 64, n % 64>>
        \o Base64(SubSeq(bytes, 4, Len(bytes)))

RECURSIVE Base64Decode(_)
Base64Decode(chars) ==
  IF Len(chars) < 4 THEN <<>>
  ELSE
    LET c1 == chars[1]
        c2 == chars[2]
        c3 == IF chars[3] = Pad THEN 0 ELSE chars[3]
        c4 == IF chars[4] = Pad THEN 0 ELSE chars[4]
        n == c1 * 262144 + c2 * 4096 + c3 * 64 + c4
        b1 == n \div 65536
        b2 == (n \div 256) % 256
        b3 == n % 256
        group == IF chars[3] = Pad THEN <<b1>>
                 ELSE IF chars[4] = Pad THEN <<b1, b2>>
                 ELSE <<b1, b2, b3>>
    IN  group \o Base64Decode(SubSeq(chars, 5, Len(chars)))

\* ------------------------------------------------------------ the request
Bytes == {77, 255}

RECURSIVE SeqsUpTo(_, _)
SeqsUpTo(S, n) ==
  IF n = 0 THEN {<<>>}
  ELSE LET shorter == SeqsUpTo(S, n - 1)
       IN  shorter \cup {Append(q, e) : q \in shorter, e \in S}

NoFile == [present |-> FALSE, type |-> "", bytes |-> <<>>]

Files ==
  {NoFile} \cup
  [present : {TRUE}, type : {"image/png", "application/pdf"},
   bytes : SeqsUpTo(Bytes, MaxFileLen)]

Contents == {Undefined, "hello", "plan"}

ChatMessage == [role : {"user"}, content : Contents]

\* The `messages` form field as JSON.parse sees it: text that is not JSON,
\* the field being absent (JSON.parse(null) is null), the JSON text `null`,
\* or a JSON array of messages.
NotAnArray == {[kind |-> k, items |-> <<>>] : k \in {"invalid", "absent", "null"}}

MessagesField ==
  NotAnArray \cup
  {[kind |-> "array", items |-> m] : m \in SeqsUpTo(ChatMessage, MaxMsgs)}

MalformedForm ==
  [formOk |-> FALSE, model |-> JNull,
   messages |-> [kind |-> "absent", items |-> <<>>], file |-> NoFile]

ModelField(table) ==
  (DOMAIN table) \cup ObjectPrototypeKeys \cup {"gpt-4", JNull}

Requests(table) ==
  {MalformedForm} \cup
  [formOk : {TRUE}, model : ModelField(table), messages : MessagesField,
   file : Files]

NoRequest ==
  [formOk |-> FALSE, model |-> Undefined,
   messages |-> [kind |-> "absent", items |-> <<>>], file |-> NoFile]

\* ------------------------------------------------- the provider's answers
Statuses == {200, 299, 300, 500}

\* A response body as response.json() sees it.  `candidates[i][j]` is the
\* text of part j of candidate i (a missing layer is an empty sequence);
\* `image` is data.image.bytesBase64Encoded; `items[i]` is
\* data[i].bytesBase64Encoded of an array body; `error` is
\* data.error.message.
Body(kind, candidates, text, image, items, error) ==
  [kind |-> kind, candidates |-> candidates, text |-> text, image |-> image,
   items |-> items, error |-> error]

TextBodies ==
  {Body("object", c, t, Undefined, <<>>, Undefined) :
     c \in {<<>>, << <<>> >>, << <<"">> >>, << <<Undefined>> >>,
            << <<"answer", "more">>, <<"other">> >>},
     t \in {Undefined, "", "top-level"}}

ImageBodies ==
  {Body("object", <<>>, Undefined, i, <<>>, Undefined) : i \in {"", "aW1hZ2U="}}
  \cup
  {Body("array", <<>>, Undefined, Undefined, it, Undefined) :
     it \in {<<>>, <<"">>, <<"Zmlyc3Q=", "c2Vjb25k">>}}

ErrorBodies ==
  {Body("object", <<>>, Undefined, Undefined, <<>>, e) :
     e \in {"", "quota exceeded"}}

OtherBodies ==
  {Body(k, <<>>, Undefined, Undefined, <<>>, Undefined) :
     k \in {"unparseable", "null"}}

ProviderBodies == TextBodies \cup ImageBodies \cup ErrorBodies \cup OtherBodies

ProviderResponses == [status : Statuses, body : ProviderBodies]

NoProviderResponse ==
  [status |-> 0, body |-> Body("none", <<>>, Undefined, Undefined, <<>>, Undefined)]

\* ------------------------------------------------------------- the handler
VARIABLES models, apiKey, req, pc, formParsed, validated, outbound,
          providerResp, thrown, resp

vars == <<models, apiKey, req, pc, formParsed, validated, outbound,
          providerResp, thrown, resp>>

NoResponse == [status |-> 0, body |-> [pending |-> TRUE]]

NoError == "<none>"

\* Variant: a check for `apiKey === undefined` only.
MissingKeyUndefinedOnly(key) == key = Undefined

\* `!apiKey`
MissingKey(key) == Falsy(key)

\* Variant: the first element instead of the last.
UserMessageFirst(items) ==
  Or(IF Len(items) = 0 THEN Undefined ELSE items[1].content, "")

\* `messages[messages.length - 1]?.content || ""`
UserMessage(items) ==
  Or(IF Len(items) = 0 THEN Undefined ELSE items[Len(items)].content, "")

\* Variant: a plain `else` in place of the `else if` of line 136.
FilePartsAlwaysReference(capabilities, file) ==
  IF ~file.present THEN <<>>
  ELSE IF "image-analysis" \in capabilities THEN
    <<[inlineData |-> [mimeType |-> file.type, data |-> Base64(file.bytes)]]>>
  ELSE
    <<[text |-> "Here is the attached image for reference:",
       image |-> [bytesBase64Encoded |-> Base64(file.bytes)]]>>

\* The parts pushed for the attached file (lines 123-144).
FileParts(capabilities, file) ==
  IF ~file.present THEN <<>>
  ELSE IF "image-analysis" \in capabilities THEN
    <<[inlineData |-> [mimeType |-> file.type, data |-> Base64(file.bytes)]]>>
  ELSE IF "image-generation" \in capabilities THEN
    <<[text |-> "Here is the attached image for reference:",
       image |-> [bytesBase64Encoded |-> Base64(file.bytes)]]>>
  ELSE <<>>

GeminiPayload(capabilities, file, userMessage) ==
  [contents |-> <<[parts |-> <<[text |-> userMessage]>>
                              \o FileParts(capabilities, file)]>>,
   systemInstruction |->
     [parts |-> <<[text |-> "You are an expert business advisor. Provide detailed, actionable responses."]>>]]

ImagenRequestBody(file, userMessage) ==
  LET prompt == Or(userMessage, "Generate a professional business image")
  IN  IF file.present
      THEN [prompt |-> [text |-> prompt,
                        image |-> [bytesBase64Encoded |-> Base64(file.bytes)]]]
      ELSE [prompt |-> [text |-> prompt]]

Url(info, model, key) ==
  [host |-> "https://generativelanguage.googleapis.com",
   version |-> info.version, model |-> model, endpoint |-> info.endpoint,
   key |-> key]

\* Variant: every status below 400 taken as a success.
ResponseOkBelow400(status) == status \in 200..399

\* `response.ok`
ResponseOk(status) == status \in 200..299

\* `errorData.error?.message || "API request failed"`
ErrorMessage(data) == Or(data.error, "API request failed")

\* Variant: only the object shape `data.image` is recognised.
ImageDataObjectOnly(data) == data.image

\* `data.image?.bytesBase64Encoded || data[0]?.bytesBase64Encoded`
ImageData(data) ==
  Or(data.image, IF Len(data.items) = 0 THEN Undefined ELSE data.items[1])

\* Variant: the top-level `text` is not consulted.
ResponseTextNoTopLevel(data) ==
  LET first == IF Len(data.candidates) = 0 THEN Undefined
               ELSE IF Len(data.candidates[1]) = 0 THEN Undefined
               ELSE data.candidates[1][1]
  IN  Or(first, "I couldn't generate a response. Please try again.")

\* `data.candidates?.[0]?.content?.parts?.[0]?.text || data.text || "..."`
ResponseText(data) ==
  LET first == IF Len(data.candidates) = 0 THEN Undefined
               ELSE IF Len(data.candidates[1]) = 0 THEN Undefined
               ELSE data.candidates[1][1]
  IN  Or(first, Or(data.text, "I couldn't generate a response. Please try again."))

ImageResponse(imageData) ==
  [status |-> 200,
   body |-> [messages |-> <<[role |-> "assistant",
                             content |-> "Here's the generated image:",
                             image |-> imageData,
                             mimeType |-> "image/png"]>>]]

TextResponse(responseText) ==
  [status |-> 200,
   body |-> [messages |-> <<[role |-> "assistant", content |-> responseText]>>]]

\* Variant: the `{ status: 500 }` option left out, so the default 200.
CatchResponseDefaultStatus(message) ==
  [status |-> 200, body |-> [error |-> Or(message, "Request failed")]]

\* The catch block: the exception's message with status 500.
CatchResponse(message) ==
  [status |-> 500, body |-> [error |-> Or(message, "Request failed")]]

MissingKeyResponse ==
  [status |-> 500,
   body |-> [error |-> "Server configuration error: Missing API key"]]

InvalidModelResponse ==
  [status |-> 400, body |-> [error |-> "Invalid model selected"]]

\* An exception raised inside the try block lands in the catch block.
Throw(message) ==
  /\ thrown' = message
  /\ resp' = CatchResponse(message)
  /\ pc' = "done"

TypeInv ==
  /\ pc \in {"start", "form", "build", "fetch", "response", "done"}
  /\ formParsed \in BOOLEAN
  /\ validated \in BOOLEAN
  /\ Len(outbound) \in 0..1
  /\ resp.status \in {0, 200, 400, 500}

InitCommon ==
  /\ apiKey \in {Undefined, "", "secret-key"}
  /\ req = NoRequest
  /\ pc = "start"
  /\ formParsed = FALSE
  /\ validated = FALSE
  /\ outbound = <<>>
  /\ providerResp = NoProviderResponse
  /\ thrown = NoError
  /\ resp = NoResponse

Init == models = SUPPORTED_MODELS /\ InitCommon

InitAny == models \in DescriptorTables /\ InitCommon

\* Lines 36-44: the request arrives and the credential is checked.
Receive(r) ==
  /\ pc = "start"
  /\ req' = r
  /\ IF MissingKey(apiKey)
     THEN resp' = MissingKeyResponse /\ pc' = "done"
     ELSE resp' = resp /\ pc' = "form"
  /\ UNCHANGED <<models, apiKey, formParsed, validated, outbound,
                 providerResp, thrown>>

\* Lines 46-57: the form is read, `messages` parsed, the model validated.
ParseForm ==
  /\ pc = "form"
  /\ IF ~req.formOk
     THEN Throw("Failed to parse body as FormData") /\ UNCHANGED <<formParsed, validated>>
     ELSE /\ formParsed' = TRUE
          /\ IF req.messages.kind = "invalid"
             THEN Throw("Unexpected token in JSON") /\ UNCHANGED validated
             ELSE IF req.messages.kind # "array"
             THEN Throw("Cannot read properties of null") /\ UNCHANGED validated
             ELSE IF ~InTable(models, req.model)
             THEN /\ resp' = InvalidModelResponse
                  /\ pc' = "done"
                  /\ UNCHANGED <<thrown, validated>>
             ELSE /\ validated' = TRUE
                  /\ pc' = "build"
                  /\ UNCHANGED <<thrown, resp>>
  /\ UNCHANGED <<models, apiKey, req, outbound, providerResp>>

\* Lines 59-153: the provider request is built and the fetch is issued.
BuildAndFetch ==
  /\ pc = "build"
  /\ LET modelInfo == ModelInfo(models, req.model)
         userMessage == UserMessage(req.messages.items)
     IN  IF modelInfo.endpoint = "generateImage"
         THEN /\ outbound' = Append(outbound,
                   [url |-> Url(modelInfo, req.model, apiKey),
                    body |-> ImagenRequestBody(req.file, userMessage)])
              /\ pc' = "fetch"
              /\ UNCHANGED <<thrown, resp>>
         ELSE IF req.file.present /\ req.model \notin DOMAIN models
         THEN \* `modelInfo.capabilities` is undefined on an inherited member
              /\ Throw("Cannot read properties of undefined")
              /\ UNCHANGED outbound
         ELSE /\ outbound' = Append(outbound,
                   [url |-> Url(modelInfo, req.model, apiKey),
                    body |-> GeminiPayload(modelInfo.capabilities, req.file,
                                           userMessage)])
              /\ pc' = "fetch"
              /\ UNCHANGED <<thrown, resp>>
  /\ UNCHANGED <<models, apiKey, req, formParsed, validated, providerResp>>

\* The awaited fetch rejects (network failure).
FetchRejects ==
  /\ pc = "fetch"
  /\ Throw("fetch failed")
  /\ UNCHANGED <<models, apiKey, req, formParsed, validated, outbound,
                 providerResp>>

\* The awaited fetch resolves with the provider's answer.
ProviderResponds(r) ==
  /\ pc = "fetch"
  /\ providerResp' = r
  /\ pc' = "response"
  /\ UNCHANGED <<models, apiKey, req, formParsed, validated, outbound,
                 thrown, resp>>

\* Lines 156-196: the provider's answer is turned into the response.
HandleResponse ==
  /\ pc = "response"
  /\ LET data == providerResp.body
         modelInfo == ModelInfo(models, req.model)
     IN  IF data.kind = "unparseable"
         THEN Throw("Unexpected end of JSON input")
         ELSE IF data.kind = "null"
         THEN Throw("Cannot read properties of null")
         ELSE IF ~ResponseOk(providerResp.status)
         THEN Throw(ErrorMessage(data))
         ELSE IF modelInfo.endpoint = "generateImage"
         THEN IF Falsy(ImageData(data))
              THEN Throw("No image data received from the API")
              ELSE /\ resp' = ImageResponse(ImageData(data))
                   /\ pc' = "done"
                   /\ UNCHANGED thrown
         ELSE /\ resp' = TextResponse(ResponseText(data))
              /\ pc' = "done"
              /\ UNCHANGED thrown
  /\ UNCHANGED <<models, apiKey, req, formParsed, validated, outbound,
                 providerResp>>

Next ==
  \/ pc = "start" /\ \E r \in Requests(models) : Receive(r)
  \/ ParseForm
  \/ BuildAndFetch
  \/ FetchRejects
  \/ pc = "fetch" /\ \E r \in ProviderResponses : ProviderResponds(r)
  \/ HandleResponse

Spec == Init /\ [][Next]_vars

SpecAny == InitAny /\ [][Next]_vars

\* ------------------------------------------------------------- properties
KeyPresent == apiKey \notin {Undefined, ""}

KnownModel == req.model \in DOMAIN models

Descriptor == models[req.model]

ProviderSuccess ==
  providerResp # NoProviderResponse /\ providerResp.status \in 200..299

IsErrorResponse(r, status) ==
  r.status = status /\ DOMAIN r.body = {"error"}

\* The user's text as the data model defines it: the content of the last
\* message, "" when there is none.
LastContent ==
  LET items == req.messages.items
  IN  IF Len(items) = 0 THEN ""
      ELSE IF items[Len(items)].content = Undefined THEN ""
      ELSE items[Len(items)].content

WellFormedBase64(chars, n) ==
  /\ Len(chars) = 4 * ((n + 2) \div 3)
  /\ \A i \in 1..Len(chars) : chars[i] \in 0..Pad
  /\ Base64Decode(chars) \in Seq(0..255)

\* C1: a request whose model field is not a key of the table is answered
\* with 400 and never causes an outbound call (credential present, any
\* messages field, any file).
C1_UnknownModelRejected ==
  (KeyPresent /\ req.formOk /\ ~KnownModel) =>
     /\ outbound = <<>>
     /\ pc = "done" => IsErrorResponse(resp, 400)

\* C2: with the credential absent or empty the handler answers 500 with the
\* configuration message, before the form is parsed or a call is made.
C2_MissingKeyIs500 ==
  (apiKey \in {Undefined, ""} /\ pc # "start") =>
     /\ pc = "done"
     /\ resp = [status |-> 500,
                body |-> [error |-> "Server configuration error: Missing API key"]]
     /\ ~formParsed
     /\ outbound = <<>>

C2_Witness ==
  /\ apiKey = ""
  /\ pc = "done"
  /\ req.formOk
  /\ req.model \in DOMAIN SUPPORTED_MODELS
  /\ resp.status = 500

\* C3: a provider answer with a non-2xx status ends in a 500 response with
\* an error body, the exception having been caught, whatever the error body.
C3_ProviderErrorIs500 ==
  (providerResp # NoProviderResponse /\ providerResp.status \notin 200..299) =>
     /\ pc \in {"response", "done"}
     /\ pc = "done" => /\ IsErrorResponse(resp, 500)
                       /\ thrown # NoError
                       /\ resp.body.error # Undefined

C3_Witness ==
  /\ pc = "done"
  /\ providerResp.status = 300
  /\ providerResp.body.kind = "unparseable"
  /\ resp.status = 500

\* C4: an invocation ends in one of three shapes: 200 with one assistant
\* message and no error, only after a provider success; 400 with an error
\* only for a model outside the table; 500 with an error for a missing
\* credential or a caught exception.  No response before the end.
C4_ResponseShapes ==
  IF pc # "done" THEN resp = NoResponse
  ELSE \/ /\ resp.status = 200
          /\ DOMAIN resp.body = {"messages"}
          /\ Len(resp.body.messages) = 1
          /\ resp.body.messages[1].role = "assistant"
          /\ ProviderSuccess
          /\ thrown = NoError
       \/ /\ IsErrorResponse(resp, 400)
          /\ ~KnownModel
          /\ thrown = NoError
       \/ /\ IsErrorResponse(resp, 500)
          /\ (~KeyPresent) # (thrown # NoError)

C4_Witness ==
  /\ pc = "done"
  /\ resp.status = 200
  /\ ProviderSuccess
  /\ req.file.present

\* C5: a request that passed the credential check and the model validation
\* causes exactly one outbound call, the response comes only after the call
\* completed or failed, and no request causes more than one call.
C5_ExactlyOneCall ==
  /\ Len(outbound) <= 1
  /\ (validated /\ pc \in {"fetch", "response", "done"}) => Len(outbound) = 1
  /\ (validated /\ resp # NoResponse) =>
        (providerResp # NoProviderResponse \/ thrown = "fetch failed")

\* C6: for a generateContent model of the table and no file, the payload has
\* one content block with one part, the text of the last message.
C6_TextOnlyPayload ==
  (Len(outbound) = 1 /\ KnownModel /\ ~req.file.present
     /\ Descriptor.endpoint = "generateContent") =>
     LET contents == outbound[1].body.contents
     IN  /\ Len(contents) = 1
         /\ contents[1].parts = <<[text |-> LastContent]>>

C6_Witness ==
  /\ Len(outbound) = 1
  /\ KnownModel
  /\ ~req.file.present
  /\ Len(req.messages.items) = 2
  /\ req.messages.items[1].content = "hello"
  /\ req.messages.items[2].content = "plan"

\* C7: with a file and the image-analysis capability (with or without
\* image-generation), the content block is the text part followed by one
\* inline-data part with the file's MIME type and the base64 of its bytes.
C7_InlineDataPart ==
  (Len(outbound) = 1 /\ KnownModel /\ req.file.present
     /\ Descriptor.endpoint = "generateContent"
     /\ "image-analysis" \in Descriptor.capabilities) =>
     LET contents == outbound[1].body.contents
         parts == contents[1].parts
     IN  /\ Len(contents) = 1
         /\ Len(parts) = 2
         /\ parts[1] = [text |-> LastContent]
         /\ DOMAIN parts[2] = {"inlineData"}
         /\ parts[2].inlineData.mimeType = req.file.type
         /\ WellFormedBase64(parts[2].inlineData.data, Len(req.file.bytes))
         /\ Base64Decode(parts[2].inlineData.data) = req.file.bytes

C7_Witness ==
  /\ Len(outbound) = 1
  /\ KnownModel
  /\ req.file.present
  /\ Len(req.file.bytes) = 2
  /\ req.file.type = "application/pdf"
  /\ Descriptor.endpoint = "generateContent"
  /\ {"image-analysis", "image-generation"} \subseteq Descriptor.capabilities

\* The image payload of a success body: data.image's when non-empty, else
\* the first array element's when non-empty.
ProviderImage ==
  LET data == providerResp.body
  IN  IF data.image \notin {Undefined, ""} THEN data.image
      ELSE IF Len(data.items) > 0 /\ data.items[1] \notin {Undefined, ""}
      THEN data.items[1]
      ELSE Undefined

\* C8: for a generateImage model, a success body with image data gives 200
\* with one assistant message carrying that data as image/png, and a
\* success body without image data gives a 500 error.
C8_ImageResult ==
  (pc = "done" /\ KnownModel /\ Descriptor.endpoint = "generateImage"
     /\ ProviderSuccess /\ providerResp.body.kind \in {"object", "array"}) =>
     IF ProviderImage # Undefined
     THEN /\ resp.status = 200
          /\ DOMAIN resp.body = {"messages"}
          /\ Len(resp.body.messages) = 1
          /\ resp.body.messages[1].role = "assistant"
          /\ resp.body.messages[1].image = ProviderImage
          /\ resp.body.messages[1].mimeType = "image/png"
     ELSE IsErrorResponse(resp, 500)

C8_Witness ==
  /\ pc = "done"
  /\ KnownModel
  /\ Descriptor.endpoint = "generateImage"
  /\ providerResp.status = 299
  /\ providerResp.body.kind = "array"
  /\ resp.status = 200
  /\ resp.body.messages[1].image = "Zmlyc3Q="

\* The text of a success body: the first part of the first candidate when
\* non-empty, else the top-level text when non-empty, else the default.
ProviderText ==
  LET data == providerResp.body
      c == data.candidates
  IN  IF Len(c) > 0 /\ Len(c[1]) > 0 /\ c[1][1] \notin {Undefined, ""}
      THEN c[1][1]
      ELSE IF data.text \notin {Undefined, ""} THEN data.text
      ELSE "I couldn't generate a response. Please try again."

TextResult ==
  /\ resp.status = 200
  /\ DOMAIN resp.body = {"messages"}
  /\ Len(resp.body.messages) = 1
  /\ resp.body.messages[1].role = "assistant"
  /\ resp.body.messages[1].content = ProviderText
  /\ resp.body.messages[1].content # ""

\* C9 as stated: every provider success for a generateContent model gives
\* 200 with one assistant message holding the extracted or default text.
C9_AlwaysText ==
  (pc = "done" /\ KnownModel /\ Descriptor.endpoint = "generateContent"
     /\ ProviderSuccess) => TextResult

\* C9: a provider success for a generateContent model whose body parses to
\* a non-null JSON value gives 200 with one assistant message holding the
\* extracted or default text; a body that is not JSON, or is null, gives 500.
C9_TextWhenBodyParses ==
  (pc = "done" /\ KnownModel /\ Descriptor.endpoint = "generateContent"
     /\ ProviderSuccess) =>
     IF providerResp.body.kind \in {"object", "array"}
     THEN TextResult
     ELSE IsErrorResponse(resp, 500)

C9_Witness ==
  /\ pc = "done"
  /\ KnownModel
  /\ Descriptor.endpoint = "generateContent"
  /\ providerResp.status = 200
  /\ providerResp.body.candidates = << <<"">> >>
  /\ providerResp.body.text = "top-level"
  /\ resp.status = 200

\* C10: with a file, on a generateContent model declaring image-generation
\* but not image-analysis, the block gets one reference-shaped part after
\* the text part; declaring neither, the file is left out and the call is
\* still issued.
C10_ReferencePart ==
  (validated /\ pc \in {"fetch", "response", "done"} /\ KnownModel
     /\ req.file.present /\ Descriptor.endpoint = "generateContent"
     /\ "image-analysis" \notin Descriptor.capabilities) =>
     /\ Len(outbound) = 1
     /\ LET contents == outbound[1].body.contents
            parts == contents[1].parts
        IN  /\ Len(contents) = 1
            /\ parts[1] = [text |-> LastContent]
            /\ IF "image-generation" \in Descriptor.capabilities
               THEN /\ Len(parts) = 2
                    /\ DOMAIN parts[2] = {"text", "image"}
                    /\ parts[2].text = "Here is the attached image for reference:"
                    /\ DOMAIN parts[2].image = {"bytesBase64Encoded"}
                    /\ Base64Decode(parts[2].image.bytesBase64Encoded)
                         = req.file.bytes
               ELSE Len(parts) = 1

C10_Witness ==
  /\ pc = "fetch"
  /\ KnownModel
  /\ req.file.present
  /\ Len(req.file.bytes) = 1
  /\ Descriptor.endpoint = "generateContent"
  /\ Descriptor.capabilities = {"text"}
  /\ Len(outbound) = 1

====
